---- MODULE Spec2Model ----
(***************************************************************************)
(* Model of the extract / prepare / retry pipeline of src/lib.rs:          *)
(* extract_render_asset (RenderStage::Extract) and prepare_assets           *)
(* (RenderStage::Prepare) for one asset type A with IntoRenderAsset.       *)
(***************************************************************************)
EXTENDS Naturals, Sequences, FiniteSets

\* ------------------------------------------------------------------ bounds
\* Number of handles whose id is resolved (map_weak succeeds).
MaxHandles == 1
\* Number of asset values the main world writes over a run.
MaxVersion == 2
\* Number of AssetEvents the main world emits between two Extract stages.
MaxEvents == 2
\* Length of the event sequences the change tracking is tried on.
MaxTrackedEvents == 3
\* Number of resolved handles the Removing phase is tried on.
MaxRemovalHandles == 2
\* Length of the removed lists the Removing phase is tried on.
MaxRemoved == 2
\* Length of the retry queues the retrying is tried on.
MaxPending == 2
\* Number of IntoRenderAssetPlugins added to one app.
MaxPlugins == 3
\* Number of AssetEvents between two Extract stages where one has no Prepare stage.
MaxSkipEvents == 2

\* ----------------------------------------------------------------- handles
\* The one modelled handle whose id is still pending: map_weak fails on it.
PendingHandle == 0
ResolvedHandles == 1..MaxHandles
Handles == ResolvedHandles \cup {PendingHandle}

\* Assets<A>::get gives None for a handle with no data.
NoAsset == 0
Values == 1..MaxVersion

VARIABLES
    assets,             \* main world Assets<A>: handle -> value, NoAsset if none
    version,            \* last value the main world wrote
    events,             \* AssetEvent<A>s not yet read by the Extract stage
    extracted,          \* ExtractedAssets.extracted
    removed,            \* ExtractedAssets.removed
    render_assets,      \* IntoRenderAssets<A>: target handle -> prepared asset
    prepare_next_frame, \* PrepareNextFrameAssets.assets
    queued_assets,      \* prepare_assets' local: the retry items still to do
    pc,                 \* position of the frame
    changed_assets,     \* extract_render_asset's local set, as its run left it
    cycleEvents,        \* the events the Extract stage of this frame read
    log,                \* what the current (last) prepare pass did, in order
    hist,               \* per handle: last of prepared Ok / removed, and a retry since
    scen,               \* per handle: life of a newly created item
    stamps,             \* per event of events: the value it wrote, NoAsset if none
    dead,               \* the values of items created and removed within one frame
    taken,              \* the items the current prepare pass began with, in order
    labels,             \* per plugin added to the app: its prepare_asset_label
    ran                 \* the plugins whose prepare_assets ran in this Prepare stage

vars == <<assets, version, events, extracted, removed, render_assets,
          prepare_next_frame, queued_assets, pc, changed_assets, cycleEvents,
          log, hist, scen, stamps, dead, taken, labels, ran>>

\* ----------------------------------------------------------- user's trait
\* IntoRenderAsset::extract_asset: the snapshot of an asset value.
extract_asset(a) == [snapshot |-> a]

\* IntoRenderAsset::prepare_asset_into, the Ok case: the GPU representation.
prepare_asset_into(e) == [prepared |-> e.snapshot]

\* map_weak giving a handle of the Into type for a pending id as well.
map_weakUnchecked(h) == [ok |-> TRUE, handle |-> <<"Into", h>>]

\* Handle::map_weak of bevy_map_handle: the handle of the Into type, or an
\* error for a handle whose id is pending.
map_weak(h) ==
    IF h = PendingHandle
    THEN [ok |-> FALSE, handle |-> <<"Into", h>>]
    ELSE [ok |-> TRUE, handle |-> <<"Into", h>>]

Target(h) == map_weak(h).handle

\* ------------------------------------------------------- change tracking
IsChange(ev) == ev.kind \in {"Created", "Modified"}

\* TrackEvent without changed_assets.remove(&handle) (line 126).
TrackEventNoErase(acc, ev) ==
    IF IsChange(ev)
    THEN [acc EXCEPT !.changed = @ \cup {ev.handle}]
    ELSE [acc EXCEPT !.removed = Append(@, ev.handle)]

\* TrackEvent with removed kept free of repeated handles.
TrackEventOneRemoval(acc, ev) ==
    IF IsChange(ev)
    THEN [acc EXCEPT !.changed = @ \cup {ev.handle}]
    ELSE [changed |-> acc.changed \ {ev.handle},
          removed |-> IF \E i \in 1..Len(acc.removed) : acc.removed[i] = ev.handle
                      THEN acc.removed
                      ELSE Append(acc.removed, ev.handle)]

\* One iteration of the loop over the events (lines 121-129).
TrackEvent(acc, ev) ==
    IF IsChange(ev)
    THEN [acc EXCEPT !.changed = @ \cup {ev.handle}]
    ELSE [changed |-> acc.changed \ {ev.handle},
          removed |-> Append(acc.removed, ev.handle)]

RECURSIVE TrackFrom(_, _, _)
TrackFrom(acc, evs, i) ==
    IF i > Len(evs) THEN acc ELSE TrackFrom(TrackEvent(acc, evs[i]), evs, i + 1)

\* The loop over events.iter() (lines 118-130).
ChangeTracker(evs) == TrackFrom([changed |-> {}, removed |-> <<>>], evs, 1)

\* The sequences that list every element of S once: the orders in which
\* HashSet::drain may yield them.
DrainOrders(S) ==
    {s \in [1..Cardinality(S) -> S] : \A i, j \in 1..Cardinality(S) : s[i] = s[j] => i = j}

Item(h, e) == [handle |-> h, asset |-> e]

\* ExtractFrom leaving the loop at the first handle that has no data.
RECURSIVE ExtractFromUntilMissing(_, _, _)
ExtractFromUntilMissing(order, data, i) ==
    IF i > Len(order) \/ data[order[i]] = NoAsset THEN <<>>
    ELSE <<Item(order[i], extract_asset(data[order[i]]))>>
         \o ExtractFromUntilMissing(order, data, i + 1)

\* The loop over changed_assets.drain() (lines 132-137), for one drain order.
RECURSIVE ExtractFrom(_, _, _)
ExtractFrom(order, data, i) ==
    IF i > Len(order) THEN <<>>
    ELSE IF data[order[i]] # NoAsset
         THEN <<Item(order[i], extract_asset(data[order[i]]))>>
              \o ExtractFrom(order, data, i + 1)
         ELSE ExtractFrom(order, data, i + 1)

\* ------------------------------------------------------------- the store
\* InsertPrepared with the insert left out.
InsertPreparedNowhere(store, t, p) == store

\* render_assets.insert(handle, prepared_asset) (lines 175, 200).
InsertPrepared(store, t, p) ==
    [k \in DOMAIN store \cup {t} |-> IF k = t THEN p ELSE store[k]]

\* RemovePrepared with the remove left out.
RemovePreparedNothing(store, t) == store

\* RemovePrepared leaving an empty entry behind where it found none.
RemovePreparedTombstone(store, t) ==
    IF t \in DOMAIN store
    THEN [k \in DOMAIN store \ {t} |-> store[k]]
    ELSE [k \in DOMAIN store \cup {t} |-> IF k = t THEN [prepared |-> 0] ELSE store[k]]

\* render_assets.remove(&handle) (line 189).
RemovePrepared(store, t) == [k \in DOMAIN store \ {t} |-> store[k]]

\* The loop over the removed handles (lines 183-190) run to its end, or up to
\* the handle on which map_weak fails.
RECURSIVE RemoveAll(_, _)
RemoveAll(store, rem) ==
    IF rem = <<>> \/ ~map_weak(Head(rem)).ok THEN store
    ELSE RemoveAll(RemovePrepared(store, map_weak(Head(rem)).handle), Tail(rem))

\* Requeue with the push left out.
RequeueDropped(queue, h, e) == queue

\* Requeue pushing an empty representation in place of the one returned.
RequeueDefault(queue, h, e) == Append(queue, Item(h, extract_asset(NoAsset)))

\* prepare_next_frame.assets.push((handle, extracted_asset)) (lines 178, 203).
Requeue(queue, h, e) == Append(queue, Item(h, e))

\* PhaseAfter with the loop over the extracted assets moved to the front.
PhaseAfterNewFirst(queued, rem, ext) ==
    IF ext # <<>> THEN "PreparingNew"
    ELSE IF queued # <<>> THEN "PreparingRetries"
    ELSE IF rem # <<>> THEN "Removing"
    ELSE "Prepared"

\* The order of the three loops of prepare_assets (lines 167, 183, 192):
\* where the pass stands, given what is left of each list.
PhaseAfter(queued, rem, ext) ==
    IF queued # <<>> THEN "PreparingRetries"
    ELSE IF rem # <<>> THEN "Removing"
    ELSE IF ext # <<>> THEN "PreparingNew"
    ELSE "Prepared"

\* ------------------------------------------------------------- the state
Init ==
    /\ assets = [h \in Handles |-> NoAsset]
    /\ version = 0
    /\ events = <<>>
    /\ extracted = <<>>
    /\ removed = <<>>
    /\ render_assets = <<>>
    /\ prepare_next_frame = <<>>
    /\ queued_assets = <<>>
    /\ pc = "Idle"
    /\ changed_assets = {}
    /\ cycleEvents = <<>>
    /\ log = <<>>
    /\ hist = [h \in Handles |-> "none"]
    /\ scen = [h \in Handles |-> "none"]
    /\ stamps = <<>>
    /\ dead = {}
    /\ taken = <<>>
    /\ labels = <<"AssetPrepare">>
    /\ ran = <<>>

renderWorld == <<extracted, removed, render_assets, prepare_next_frame,
                 queued_assets, pc, changed_assets, cycleEvents, log, hist, dead,
                 taken, labels, ran>>

Event(k, h) == [kind |-> k, handle |-> h]

\* scen with the life of h, a handle that can be prepared, now at stage.
Scenario(h, stage) == [scen EXCEPT ![h] = IF h = PendingHandle THEN @ ELSE stage]

\* ----------------------------------------------------- the main world
\* Assets<A> gets an asset under h, which had none, and emits
\* AssetEvent::Created.
Created(h) ==
    /\ pc = "Idle"
    /\ assets[h] = NoAsset
    /\ Len(events) < MaxEvents
    /\ version < MaxVersion
    /\ version' = version + 1
    /\ assets' = [assets EXCEPT ![h] = version + 1]
    /\ events' = Append(events, Event("Created", h))
    /\ stamps' = Append(stamps, version + 1)
    /\ scen' = Scenario(h, IF scen[h] = "none" THEN "created" ELSE "void")
    /\ UNCHANGED renderWorld

\* Assets<A> changes the asset under h and emits AssetEvent::Modified.
Modified(h) ==
    /\ pc = "Idle"
    /\ Len(events) < MaxEvents
    /\ version < MaxVersion
    /\ version' = version + 1
    /\ assets' = [assets EXCEPT ![h] = version + 1]
    /\ events' = Append(events, Event("Modified", h))
    /\ stamps' = Append(stamps, version + 1)
    /\ scen' = Scenario(h, IF scen[h] \in {"created", "retrying"} THEN scen[h] ELSE "void")
    /\ UNCHANGED renderWorld

\* Assets<A> drops the asset under h and emits AssetEvent::Removed; the data
\* may be back under h, with no event, before the Extract stage looks it up.
Removed(h) ==
    /\ pc = "Idle"
    /\ Len(events) < MaxEvents
    /\ \E back \in BOOLEAN :
        assets' = IF back THEN assets ELSE [assets EXCEPT ![h] = NoAsset]
    /\ events' = Append(events, Event("Removed", h))
    /\ stamps' = Append(stamps, NoAsset)
    /\ scen' = Scenario(h, "void")
    /\ UNCHANGED <<version, renderWorld>>

\* The data of h is gone before the Extract stage looks it up, with no event
\* read in this frame: Assets<A>::get(&handle) will give None.
Unloaded(h) ==
    /\ pc = "Idle"
    /\ assets[h] # NoAsset
    /\ assets' = [assets EXCEPT ![h] = NoAsset]
    /\ scen' = Scenario(h, "void")
    /\ UNCHANGED <<version, events, stamps, renderWorld>>

\* ---------------------------------------------------- the Extract stage
\* h has a Created event and a later Removed event among evs, and its last
\* event among evs is Removed.
CreatedThenRemoved(evs, h) ==
    /\ \E i, j \in 1..Len(evs) :
        /\ i < j
        /\ evs[i] = Event("Created", h)
        /\ evs[j] = Event("Removed", h)
    /\ \A i \in 1..Len(evs) :
        (evs[i].handle = h /\ IsChange(evs[i]))
            => \E j \in (i + 1)..Len(evs) : evs[j] = Event("Removed", h)

\* ReplaceBuffer putting the new list behind what the resource held.
ExtendBuffer(old, new) == old \o new

\* commands.insert_resource(ExtractedAssets { .. }) (lines 139-142): what a
\* list of the resource is after it, given what it held and the new list.
ReplaceBuffer(old, new) == new

\* The system extract_render_asset (lines 113-143).
extract_render_asset ==
    /\ pc = "Idle"
    /\ LET tracked == ChangeTracker(events) IN
        /\ changed_assets' = tracked.changed
        /\ removed' = ReplaceBuffer(removed, tracked.removed)
        /\ \E order \in DrainOrders(tracked.changed) :
            extracted' = ReplaceBuffer(extracted, ExtractFrom(order, assets, 1))
    /\ cycleEvents' = events
    /\ events' = <<>>
    /\ stamps' = <<>>
    /\ dead' = dead \cup ({stamps[i] : i \in {j \in 1..Len(events) :
                                CreatedThenRemoved(events, events[j].handle)}}
                          \ {NoAsset})
    /\ pc' = "Extracted"
    /\ UNCHANGED <<assets, version, render_assets, prepare_next_frame,
                   queued_assets, log, hist, scen, taken, labels, ran>>

\* ---------------------------------------------------- the Prepare stage
LogEntry(op, h, e, res) == [op |-> op, handle |-> h, asset |-> e, res |-> res]

RetriedInPass(h) ==
    \E i \in 1..Len(log) : log[i].handle = h /\ log[i].res = "Retry"

\* Take leaving the queue as it was.
TakeClone(queue) == [taken |-> queue, left |-> queue]

\* Take giving an empty list.
TakeNothing(queue) == [taken |-> <<>>, left |-> <<>>]

\* std::mem::take(&mut prepare_next_frame.assets) (line 166): what the pass
\* gets and what is left in the resource.
Take(queue) == [taken |-> queue, left |-> <<>>]

\* prepare_assets begins (lines 165-166).
PrepareBegin ==
    /\ pc = "Extracted"
    /\ queued_assets' = Take(prepare_next_frame).taken
    /\ prepare_next_frame' = Take(prepare_next_frame).left
    /\ pc' = PhaseAfter(prepare_next_frame, removed, extracted)
    /\ cycleEvents' = <<>>
    /\ changed_assets' = {}
    /\ taken' = prepare_next_frame \o extracted
    /\ UNCHANGED <<assets, version, events, extracted, removed, render_assets,
                   log, hist, scen, stamps, dead, labels, ran>>

\* One match on R::prepare_asset_into (lines 168-180 and 193-205): the item
\* it of loop op gave res; queued and ext are what is left of the two lists.
Route(op, it, res, queued, ext) ==
    LET h == it.handle IN
    /\ queued_assets' = queued
    /\ extracted' = ext
    /\ IF res = "Ok"
       THEN IF map_weak(h).ok
            THEN /\ render_assets' = InsertPrepared(render_assets, map_weak(h).handle,
                                                    prepare_asset_into(it.asset))
                 /\ prepare_next_frame' = prepare_next_frame
                 /\ log' = Append(log, LogEntry(op, h, it.asset, "Ok"))
                 /\ hist' = [hist EXCEPT ![h] = "ok"]
                 /\ scen' = Scenario(h,
                        IF scen[h] = "done"
                           \/ (scen[h] \in {"created", "retrying"} /\ ~RetriedInPass(h))
                        THEN "done"
                        ELSE IF scen[h] = "none" THEN "none" ELSE "void")
                 /\ pc' = PhaseAfter(queued, removed, ext)
            ELSE /\ pc' = "Panicked"
                 /\ log' = Append(log, LogEntry(op, h, it.asset, "Panic"))
                 /\ UNCHANGED <<render_assets, prepare_next_frame, hist, scen>>
       ELSE /\ prepare_next_frame' = Requeue(prepare_next_frame, h, it.asset)
            /\ render_assets' = render_assets
            /\ log' = Append(log, LogEntry(op, h, it.asset, "Retry"))
            /\ hist' = [hist EXCEPT ![h] = IF @ = "ok" THEN "ok_retry" ELSE @]
            /\ scen' = Scenario(h,
                   IF scen[h] \in {"created", "retrying"} THEN "retrying"
                   ELSE IF scen[h] = "none" THEN "none" ELSE "void")
            /\ pc' = PhaseAfter(queued, removed, ext)
    /\ UNCHANGED <<assets, version, events, removed, changed_assets, cycleEvents,
                   stamps, dead, taken, labels, ran>>

Outcomes == {"Ok", "Retry"}

\* One iteration of the loop over queued_assets.drain(..) (lines 167-181).
PrepareQueued ==
    /\ pc = "PreparingRetries"
    /\ queued_assets # <<>>
    /\ \E res \in Outcomes :
        Route("retry", Head(queued_assets), res, Tail(queued_assets), extracted)

\* One iteration of the loop over the removed handles (lines 183-190).
RemoveOne ==
    /\ pc = "Removing"
    /\ removed # <<>>
    /\ LET h == Head(removed) IN
        /\ removed' = Tail(removed)
        /\ IF map_weak(h).ok
           THEN /\ render_assets' = RemovePrepared(render_assets, map_weak(h).handle)
                /\ log' = Append(log, LogEntry("remove", h, extract_asset(NoAsset),
                                  IF map_weak(h).handle \in DOMAIN render_assets
                                  THEN "Erased" ELSE "Absent"))
                /\ hist' = [hist EXCEPT ![h] = "removed"]
                /\ pc' = PhaseAfter(queued_assets, Tail(removed), extracted)
           ELSE /\ pc' = "Panicked"
                /\ log' = Append(log, LogEntry("remove", h, extract_asset(NoAsset), "Panic"))
                /\ UNCHANGED <<render_assets, hist>>
    /\ UNCHANGED <<assets, version, events, extracted, prepare_next_frame,
                   queued_assets, changed_assets, cycleEvents, scen, stamps, dead,
                   taken, labels, ran>>

\* One iteration of the loop over the extracted assets (lines 192-206).
PrepareExtracted ==
    /\ pc = "PreparingNew"
    /\ extracted # <<>>
    /\ \E res \in Outcomes :
        Route("new", Head(extracted), res, queued_assets, Tail(extracted))

\* The pass has returned (line 207): the frame ends and the main world runs
\* until the next Extract stage; the record of the pass is forgotten.
EndFrame ==
    /\ pc = "Prepared"
    /\ pc' = "Idle"
    /\ log' = <<>>
    /\ taken' = <<>>
    /\ UNCHANGED <<assets, version, events, extracted, removed, render_assets,
                   prepare_next_frame, queued_assets, changed_assets, cycleEvents,
                   hist, scen, stamps, dead, labels, ran>>

\* The system prepare_assets (lines 159-207), one step of it.
prepare_assets ==
    \/ PrepareBegin
    \/ PrepareQueued
    \/ RemoveOne
    \/ PrepareExtracted

MainWorld ==
    \E h \in Handles :
        \/ Created(h)
        \/ Modified(h)
        \/ Removed(h)
        \/ Unloaded(h)

Next ==
    \/ MainWorld
    \/ extract_render_asset
    \/ prepare_assets
    \/ EndFrame

Spec == Init /\ [][Next]_vars

\* ------------------------------------- the Extract stage on any events
EventSet == {Event(k, h) : k \in {"Created", "Modified", "Removed"}, h \in Handles}

\* Any events to read and any handle with or without data, nothing extracted yet.
InitTracker ==
    /\ events \in UNION {[1..n -> EventSet] : n \in 0..MaxTrackedEvents}
    /\ assets \in [Handles -> {NoAsset, 1}]
    /\ version = 1
    /\ extracted = <<>>
    /\ removed = <<>>
    /\ render_assets = <<>>
    /\ prepare_next_frame = <<>>
    /\ queued_assets = <<>>
    /\ pc = "Idle"
    /\ changed_assets = {}
    /\ cycleEvents = <<>>
    /\ log = <<>>
    /\ hist = [h \in Handles |-> "none"]
    /\ scen = [h \in Handles |-> "none"]
    /\ stamps = [i \in 1..Len(events) |-> NoAsset]
    /\ dead = {}
    /\ taken = <<>>
    /\ labels = <<"AssetPrepare">>
    /\ ran = <<>>

NextTracker == extract_render_asset

SpecTracker == InitTracker /\ [][NextTracker]_vars

\* ------------------------------------ the Removing phase on any store
RemovalHandles == 1..MaxRemovalHandles

\* Any store and any removed list, the pass standing before its removal loop.
InitRemoval ==
    /\ render_assets \in UNION {[{Target(h) : h \in S} ->
                                    {prepare_asset_into(extract_asset(v)) : v \in Values}] :
                                 S \in SUBSET RemovalHandles}
    /\ removed \in UNION {[1..n -> RemovalHandles \cup {PendingHandle}] : n \in 0..MaxRemoved}
    /\ pc = PhaseAfter(<<>>, removed, <<>>)
    /\ assets = [h \in Handles |-> NoAsset]
    /\ version = 0
    /\ events = <<>>
    /\ extracted = <<>>
    /\ prepare_next_frame = <<>>
    /\ queued_assets = <<>>
    /\ changed_assets = {}
    /\ cycleEvents = <<>>
    /\ log = <<>>
    /\ hist = [h \in RemovalHandles \cup {PendingHandle} |->
                    IF Target(h) \in DOMAIN render_assets THEN "ok" ELSE "none"]
    /\ scen = [h \in Handles |-> "none"]
    /\ stamps = <<>>
    /\ dead = {}
    /\ taken = <<>>
    /\ labels = <<"AssetPrepare">>
    /\ ran = <<>>

NextRemoval == RemoveOne

SpecRemoval == InitRemoval /\ [][NextRemoval]_vars

\* ------------------------------------------- frames on any retry queue
\* The items a retry queue may hold: one snapshot per handle, taken in an
\* earlier frame.
PendingItems == {Item(h, extract_asset(1)) : h \in Handles}

\* Any retry queue of distinct items, at most one event to read, every handle
\* with its newest data.
InitRetrying ==
    /\ prepare_next_frame \in
            {q \in UNION {[1..n -> PendingItems] : n \in 0..MaxPending} :
                \A i, j \in 1..Len(q) : q[i] = q[j] => i = j}
    /\ events \in {<<>>} \cup {<<ev>> : ev \in EventSet}
    /\ assets = [h \in Handles |-> MaxVersion]
    /\ version = MaxVersion
    /\ extracted = <<>>
    /\ removed = <<>>
    /\ render_assets = <<>>
    /\ queued_assets = <<>>
    /\ pc = "Idle"
    /\ changed_assets = {}
    /\ cycleEvents = <<>>
    /\ log = <<>>
    /\ hist = [h \in Handles |-> "none"]
    /\ scen = [h \in Handles |-> "void"]
    /\ stamps = [i \in 1..Len(events) |-> NoAsset]
    /\ dead = {}
    /\ taken = <<>>
    /\ labels = <<"AssetPrepare">>
    /\ ran = <<>>

\* The frames go on with no further event.
NextRetrying ==
    \/ extract_render_asset
    \/ prepare_assets
    \/ EndFrame

\* The Preparer gives Ok for the carried-over item it.
PrepareQueuedOk(it) ==
    /\ pc = "PreparingRetries"
    /\ queued_assets # <<>>
    /\ Head(queued_assets) = it
    /\ Route("retry", it, "Ok", Tail(queued_assets), extracted)

\* Both stages run in every frame, and the Preparer does not give Retry for
\* one item for ever.
FairFrames ==
    /\ WF_vars(extract_render_asset)
    /\ WF_vars(prepare_assets)
    /\ WF_vars(EndFrame)
    /\ \A it \in PendingItems : SF_vars(PrepareQueuedOk(it))

SpecRetrying == InitRetrying /\ [][NextRetrying]_vars /\ FairFrames

\* ------------------------------------ the Prepare stage of several plugins
PrepareAssetLabels == {"PreAssetPrepare", "AssetPrepare", "PostAssetPrepare"}

\* The labels the system of a plugin is put after (lines 71-79).
AfterLabels(label) ==
    CASE label = "PreAssetPrepare" -> {}
      [] label = "AssetPrepare" -> {"PreAssetPrepare"}
      [] label = "PostAssetPrepare" -> {"AssetPrepare"}

\* An app with up to MaxPlugins plugins, each with one of the three labels;
\* no prepare system has run yet.
InitSchedule ==
    /\ labels \in UNION {[1..n -> PrepareAssetLabels] : n \in 1..MaxPlugins}
    /\ ran = <<>>
    /\ assets = [h \in Handles |-> NoAsset]
    /\ version = 0
    /\ events = <<>>
    /\ extracted = <<>>
    /\ removed = <<>>
    /\ render_assets = <<>>
    /\ prepare_next_frame = <<>>
    /\ queued_assets = <<>>
    /\ pc = "Extracted"
    /\ changed_assets = {}
    /\ cycleEvents = <<>>
    /\ log = <<>>
    /\ hist = [h \in Handles |-> "none"]
    /\ scen = [h \in Handles |-> "none"]
    /\ stamps = <<>>
    /\ dead = {}
    /\ taken = <<>>

\* The stage runs prepare_assets of plugin p, from begin to end: a system
\* labelled and ordered as in lines 69-79 runs once per stage, when every
\* system carrying a label it was put after has run.
RunPrepare(p) ==
    /\ p \notin {ran[i] : i \in 1..Len(ran)}
    /\ \A q \in 1..Len(labels) :
        labels[q] \in AfterLabels(labels[p]) => q \in {ran[i] : i \in 1..Len(ran)}
    /\ ran' = Append(ran, p)
    /\ UNCHANGED <<assets, version, events, extracted, removed, render_assets,
                   prepare_next_frame, queued_assets, pc, changed_assets, cycleEvents,
                   log, hist, scen, stamps, dead, taken, labels>>

\* Every system of the stage has run: the stage ends, the next frame has its own.
EndStage ==
    /\ Len(ran) = Len(labels)
    /\ ran' = <<>>
    /\ UNCHANGED <<assets, version, events, extracted, removed, render_assets,
                   prepare_next_frame, queued_assets, pc, changed_assets, cycleEvents,
                   log, hist, scen, stamps, dead, taken, labels>>

NextSchedule ==
    \/ \E p \in 1..Len(labels) : RunPrepare(p)
    \/ EndStage

SpecSchedule == InitSchedule /\ [][NextSchedule]_vars

\* --------------------------------- an Extract stage with no Prepare stage
\* The events of one resolved handle.
SkipEvents == {Event(k, MaxHandles) : k \in {"Created", "Modified", "Removed"}}

\* Every handle has data, some resolved handles have their entry, prepared
\* from that data in earlier frames; no event yet.
InitSkipping ==
    /\ assets = [h \in Handles |-> 1]
    /\ version = 1
    /\ events = <<>>
    /\ extracted = <<>>
    /\ removed = <<>>
    /\ render_assets \in {[t \in {Target(h) : h \in S} |-> prepare_asset_into(extract_asset(1))] :
                            S \in SUBSET ResolvedHandles}
    /\ prepare_next_frame = <<>>
    /\ queued_assets = <<>>
    /\ pc = "Idle"
    /\ changed_assets = {}
    /\ cycleEvents = <<>>
    /\ log = <<>>
    /\ hist = [h \in Handles |-> IF Target(h) \in DOMAIN render_assets THEN "ok" ELSE "none"]
    /\ scen = [h \in Handles |-> "void"]
    /\ stamps = <<>>
    /\ dead = {}
    /\ taken = <<>>
    /\ labels = <<"AssetPrepare">>
    /\ ran = <<>>

\* The main world between two Extract stages, in one step: it emits evs and
\* the handles with a Created or Modified event among them have new data.
MainWorldEmits(evs) ==
    /\ pc = "Idle"
    /\ events = <<>>
    /\ version <= MaxVersion
    /\ version' = version + 1
    /\ events' = evs
    /\ stamps' = [i \in 1..Len(evs) |-> NoAsset]
    /\ assets' = [h \in Handles |->
                    IF \E i \in 1..Len(evs) : evs[i].handle = h /\ IsChange(evs[i])
                    THEN version + 1 ELSE assets[h]]
    /\ UNCHANGED <<scen, renderWorld>>

\* What a frame that ends before its Prepare stage leaves unprepared.
Dropped ==
    [i \in 1..Len(extracted) |->
        LogEntry("dropped", extracted[i].handle, extracted[i].asset, "Dropped")]
    \o [i \in 1..Len(removed) |->
        LogEntry("dropped_removal", removed[i], extract_asset(NoAsset), "Dropped")]

\* The frame ends after its Extract stage: prepare_assets does not run and
\* the resources stay as they are. At most one such frame leaves something
\* unprepared before a prepare pass runs.
SkipPrepare ==
    /\ pc = "Extracted"
    /\ log = <<>>
    /\ pc' = "Idle"
    /\ log' = Dropped
    /\ UNCHANGED <<assets, version, events, extracted, removed, render_assets,
                   prepare_next_frame, queued_assets, changed_assets, cycleEvents,
                   hist, scen, stamps, dead, taken, labels, ran>>

NextSkipping ==
    \/ \E evs \in UNION {[1..n -> SkipEvents] : n \in 0..MaxSkipEvents} : MainWorldEmits(evs)
    \/ extract_render_asset
    \/ SkipPrepare
    \/ prepare_assets
    \/ EndFrame

SpecSkipping == InitSkipping /\ [][NextSkipping]_vars

\* ----------------------------------------------------------- properties
Boundary == pc = "Prepared"

InQueue(h) ==
    \E i \in 1..Len(prepare_next_frame) : prepare_next_frame[i].handle = h

HasEntry(h) == Target(h) \in DOMAIN render_assets

\* The Removing phase of this pass handled a Removed event of h.
RemovedInPass(h) ==
    \E i \in 1..Len(log) : log[i].op = "remove" /\ log[i].handle = h

\* The Preparing-New phase of this pass prepared a fresh item of h with Ok.
FreshOkInPass(h) ==
    \E i \in 1..Len(log) : log[i].op = "new" /\ log[i].handle = h /\ log[i].res = "Ok"

PreparedOkInPass(h) ==
    \E i \in 1..Len(log) :
        log[i].op \in {"retry", "new"} /\ log[i].handle = h /\ log[i].res = "Ok"

\* C1, as stated: after a full cycle no handle of that cycle's removed list
\* has an entry in the Prepared Store, whatever the events of the cycle were.
C1_RemovedHaveNoEntry ==
    Boundary => \A h \in ResolvedHandles : RemovedInPass(h) => ~HasEntry(h)

\* C1, amended: after a full cycle a handle of that cycle's removed list has
\* no entry in the Prepared Store, unless an item of it extracted in the same
\* cycle (a Created or Modified event after its last Removed event) was
\* prepared with Ok in Preparing-New.
C1_RemovedHaveNoEntryUnlessRecreated ==
    Boundary =>
        \A h \in ResolvedHandles :
            (RemovedInPass(h) /\ ~FreshOkInPass(h)) => ~HasEntry(h)

\* An entry prepared in an earlier cycle was erased by this cycle's removal.
C1_Witness ==
    /\ Boundary
    /\ \E h \in ResolvedHandles :
        /\ \E i \in 1..Len(log) :
            log[i] = LogEntry("remove", h, extract_asset(NoAsset), "Erased")
        /\ ~PreparedOkInPass(h)
        /\ ~HasEntry(h)

\* C2, as stated: at a cycle boundary the store has an entry for H exactly
\* when H was prepared with Ok and has since neither been removed nor been
\* re-queued for retry.
C2_EntryIffPreparedNotRequeued ==
    Boundary => \A h \in ResolvedHandles : HasEntry(h) <=> hist[h] = "ok"

\* C2, amended: at a cycle boundary the store has an entry for H exactly when
\* H was prepared with Ok and no removal of H was applied since; a Retry of a
\* later snapshot of H leaves the entry in place.
C2_EntryIffPreparedNotRemoved ==
    Boundary => \A h \in ResolvedHandles : HasEntry(h) <=> hist[h] \in {"ok", "ok_retry"}

\* A handle with an entry was modified and its new snapshot is queued for retry.
C2_Witness ==
    /\ Boundary
    /\ \E h \in ResolvedHandles : hist[h] = "ok_retry" /\ HasEntry(h) /\ InQueue(h)

\* C3: at a cycle boundary each handle is in the retry queue at most once.
C3_RetryQueueUnique ==
    Boundary =>
        \A i, j \in 1..Len(prepare_next_frame) :
            prepare_next_frame[i].handle = prepare_next_frame[j].handle => i = j

\* C4: once a cycle has processed a Removed event of H, the retry queue holds
\* no item of H extracted before the removal: an item of H still queued at the
\* boundary was extracted fresh in this cycle.
C4_RemovalDropsPending ==
    Boundary =>
        \A h \in ResolvedHandles :
            RemovedInPass(h) =>
                \A i \in 1..Len(prepare_next_frame) :
                    prepare_next_frame[i].handle = h =>
                        \E k \in 1..Len(log) :
                            log[k] = LogEntry("new", h, prepare_next_frame[i].asset, "Retry")

Range(seq) == {seq[i] : i \in 1..Len(seq)}

ExtractedHandles == {extracted[i].handle : i \in 1..Len(extracted)}

\* h has a Created or Modified event among evs and a Removed event after it.
ChangedThenRemoved(evs, h) ==
    \E i, j \in 1..Len(evs) :
        /\ i < j
        /\ evs[i].handle = h /\ IsChange(evs[i])
        /\ evs[j] = Event("Removed", h)

\* The last event of h among evs is of kind Created/Modified (change = TRUE)
\* or Removed (change = FALSE).
LastEventIs(evs, h, change) ==
    \E i \in 1..Len(evs) :
        /\ evs[i].handle = h
        /\ IsChange(evs[i]) = change
        /\ \A j \in (i + 1)..Len(evs) : evs[j].handle # h

\* C5, as stated: a handle with a Created or Modified event and a later
\* Removed event in one cycle is in removed and never in changed.
C5_ChangedThenRemovedOnlyRemoved ==
    pc = "Extracted" =>
        \A h \in Handles :
            ChangedThenRemoved(cycleEvents, h) =>
                /\ h \in Range(removed)
                /\ h \notin changed_assets
                /\ h \notin ExtractedHandles

\* C5, amended: a handle with a Created or Modified event and a later Removed
\* event in one cycle, and no Created or Modified event after its last
\* Removed event, is in removed and never in changed.
C5_RemovedLastOnlyRemoved ==
    pc = "Extracted" =>
        \A h \in Handles :
            (ChangedThenRemoved(cycleEvents, h) /\ LastEventIs(cycleEvents, h, FALSE)) =>
                /\ h \in Range(removed)
                /\ h \notin changed_assets
                /\ h \notin ExtractedHandles

C5_Witness ==
    /\ pc = "Extracted"
    /\ \E h \in Handles :
        /\ ChangedThenRemoved(cycleEvents, h)
        /\ LastEventIs(cycleEvents, h, FALSE)
        /\ assets[h] # NoAsset
        /\ h \in Range(removed)
        /\ h \notin changed_assets

IsRemoved(ev) == ev.kind = "Removed"

\* C6: changed holds exactly the handles whose last event of the cycle is
\* Created or Modified, each extracted at most once; a handle whose last
\* event is Removed is in removed; removed holds the handles of the Removed
\* events, one per event, in arrival order; no events give empty outputs.
C6_CollapseRule ==
    pc = "Extracted" =>
        /\ changed_assets = {h \in Handles : LastEventIs(cycleEvents, h, TRUE)}
        /\ \A h \in Handles : LastEventIs(cycleEvents, h, FALSE) => h \in Range(removed)
        /\ Len(removed) = Len(SelectSeq(cycleEvents, IsRemoved))
        /\ \A i \in 1..Len(removed) : removed[i] = SelectSeq(cycleEvents, IsRemoved)[i].handle
        /\ ExtractedHandles = {h \in changed_assets : assets[h] # NoAsset}
        /\ \A i, j \in 1..Len(extracted) : extracted[i].handle = extracted[j].handle => i = j
        /\ cycleEvents = <<>> => (changed_assets = {} /\ removed = <<>> /\ extracted = <<>>)

\* Three events of one handle, two of them Removed: both are in removed.
C6_Witness ==
    /\ pc = "Extracted"
    /\ Len(cycleEvents) = 3
    /\ \E h \in Handles :
        /\ cycleEvents[1] = Event("Created", h)
        /\ cycleEvents[2] = Event("Removed", h)
        /\ cycleEvents[3] = Event("Removed", h)
        /\ removed = <<h, h>>
        /\ changed_assets = {}

\* C7: in a prepare pass every carried-over item is prepared before any
\* removal is applied, and every removal is applied before any freshly
\* extracted item is prepared.
C7_PhaseOrdering ==
    /\ \A i, j \in 1..Len(log) :
        i < j =>
            /\ log[i].op = "remove" => log[j].op # "retry"
            /\ log[i].op = "new" => log[j].op \notin {"retry", "remove"}
    /\ (pc \in {"Removing", "PreparingNew"} \/ \E i \in 1..Len(log) : log[i].op # "retry")
            => queued_assets = <<>>
    /\ (pc = "PreparingNew" \/ \E i \in 1..Len(log) : log[i].op = "new")
            => removed = <<>>

\* A pass that ran all three phases.
C7_Witness ==
    /\ Boundary
    /\ \E i, j, k \in 1..Len(log) :
        log[i].op = "retry" /\ log[j].op = "remove" /\ log[k].op = "new"

\* C8: a Preparer call that returns Retry puts exactly the item it was given,
\* under the same handle, at the end of the retry queue and leaves the
\* Prepared Store as it was.
C8_RetryStability ==
    [][(Len(log') = Len(log) + 1 /\ log'[Len(log')].res = "Retry") =>
        LET it == IF log'[Len(log')].op = "retry" THEN Head(queued_assets) ELSE Head(extracted) IN
        /\ prepare_next_frame' = Append(prepare_next_frame, it)
        /\ render_assets' = render_assets]_vars

\* An item carried over from an earlier cycle returned Retry again.
C8_Witness ==
    /\ Boundary
    /\ \E i \in 1..Len(log), k \in 1..Len(prepare_next_frame) :
        /\ log[i].op = "retry"
        /\ log[i].res = "Retry"
        /\ prepare_next_frame[k] = Item(log[i].handle, log[i].asset)

\* C9: a newly created item with no Removed event whose Preparer calls all
\* returned Retry in every cycle so far has no entry and is in the retry
\* queue; after the first cycle whose calls all return Ok it has the entry
\* prepared from its data and is no longer in the retry queue.
C9_CreatedEndToEnd ==
    Boundary =>
        \A h \in ResolvedHandles :
            /\ scen[h] = "retrying" => (~HasEntry(h) /\ InQueue(h))
            /\ scen[h] = "done" =>
                /\ HasEntry(h)
                /\ render_assets[Target(h)] = prepare_asset_into(extract_asset(assets[h]))
                /\ ~InQueue(h)

\* Ok after at least one cycle of Retry: the item came out of the retry queue.
C9_Witness ==
    /\ Boundary
    /\ \E h \in ResolvedHandles :
        /\ scen[h] = "done"
        /\ \E i \in 1..Len(log) :
            log[i].op = "retry" /\ log[i].handle = h /\ log[i].res = "Ok"
        /\ HasEntry(h)

Snapshots(items) == {items[i].asset.snapshot : i \in 1..Len(items)}

\* C10: an item created and then removed within one cycle (no later Created
\* or Modified event in that cycle) is never extracted, the Preparer is never
\* called for it, it is never queued for retry and the Prepared Store never
\* holds an entry prepared from it; its handle is not extracted in that cycle.
C10_CreatedRemovedNeverPrepared ==
    /\ \A v \in dead :
        /\ v \notin Snapshots(extracted)
        /\ v \notin Snapshots(queued_assets)
        /\ v \notin Snapshots(prepare_next_frame)
        /\ v \notin Snapshots(log)
        /\ \A t \in DOMAIN render_assets :
            render_assets[t] # prepare_asset_into(extract_asset(v))
    /\ pc = "Extracted" =>
        \A h \in Handles : CreatedThenRemoved(cycleEvents, h) => h \notin ExtractedHandles

\* The item was created and removed within an earlier frame, its data is
\* (again) there, and a later frame has passed with no entry for it.
C10_Witness ==
    /\ Boundary
    /\ \E h \in ResolvedHandles : assets[h] \in dead /\ ~RemovedInPass(h) /\ ~HasEntry(h)

\* The handles of the removals the pass applied, in order.
RECURSIVE RemovalsOf(_)
RemovalsOf(entries) ==
    IF entries = <<>> THEN <<>>
    ELSE IF Head(entries).op = "remove"
         THEN <<Head(entries).handle>> \o RemovalsOf(Tail(entries))
         ELSE RemovalsOf(Tail(entries))

\* C11: once the Removing phase has run over a removed list, running it over
\* the same list again leaves the Prepared Store as the first run left it;
\* and the removal of a handle that has no entry changes nothing.
C11_RemovalIdempotent ==
    /\ [](Boundary => RemoveAll(render_assets, RemovalsOf(log)) = render_assets)
    /\ [][(pc = "Removing" /\ removed # <<>> /\ map_weak(Head(removed)).ok
            /\ Target(Head(removed)) \notin DOMAIN render_assets)
           => render_assets' = render_assets]_vars

\* A list that names one handle twice: the second removal found no entry,
\* while another handle kept its own.
C11_Witness ==
    /\ Boundary
    /\ render_assets # <<>>
    /\ \E i, j \in 1..Len(log) :
        /\ i < j
        /\ log[i].handle = log[j].handle
        /\ log[i].res = "Erased"
        /\ log[j].res = "Absent"

IsPrepareEntry(en) == en.op \in {"retry", "new"}

\* The Preparer gave res for item it in this pass.
Gave(it, res) ==
    \E i \in 1..Len(log) :
        /\ IsPrepareEntry(log[i])
        /\ Item(log[i].handle, log[i].asset) = it
        /\ log[i].res = res

\* No later step of this pass wrote or erased the entry of h.
LastWriteOf(h, i) ==
    \A j \in (i + 1)..Len(log) : log[j].handle = h => log[j].res = "Retry"

\* C12: after a prepare pass both lists of the extraction buffer are empty,
\* and every item the pass started with (retry queue and extracted) went to
\* exactly one place: the Prepared Store under its target handle if the
\* Preparer gave Ok, the retry queue if it gave Retry; none is lost and none
\* is in both.
C12_Conservation ==
    Boundary =>
        /\ extracted = <<>> /\ removed = <<>> /\ queued_assets = <<>>
        /\ Range(prepare_next_frame) \subseteq Range(taken)
        /\ \A k \in 1..Len(taken) :
            /\ Gave(taken[k], "Ok") # Gave(taken[k], "Retry")
            /\ Gave(taken[k], "Retry") <=> taken[k] \in Range(prepare_next_frame)
            /\ \A i \in 1..Len(log) :
                (/\ log[i] = LogEntry(log[i].op, taken[k].handle, taken[k].asset, "Ok")
                 /\ LastWriteOf(taken[k].handle, i))
                    => (/\ HasEntry(taken[k].handle)
                        /\ render_assets[Target(taken[k].handle)]
                                = prepare_asset_into(taken[k].asset))

\* A pass that gave Ok to a carried-over item and Retry to a fresh one.
C12_Witness ==
    /\ Boundary
    /\ \E i, j \in 1..Len(log) :
        /\ log[i].op = "retry" /\ log[i].res = "Ok"
        /\ log[j].op = "new" /\ log[j].res = "Retry"
        /\ HasEntry(log[i].handle)
        /\ prepare_next_frame = <<Item(log[j].handle, log[j].asset)>>

\* The Preparer has just given Ok for the carried-over item it: its prepared
\* asset is in the store and it is in no queue.
JustPrepared(it) ==
    /\ log # <<>>
    /\ log[Len(log)] = LogEntry("retry", it.handle, it.asset, "Ok")
    /\ HasEntry(it.handle)
    /\ render_assets[Target(it.handle)] = prepare_asset_into(it.asset)
    /\ it \notin Range(prepare_next_frame) \cup Range(queued_assets)

\* C13: an item in the retry queue is given to the Preparer again in the next
\* pass, and a Retry puts it back with no fatal error, however often; with
\* frames that keep running and a Preparer that does not give Retry for ever,
\* an item whose handle resolves leaves the retry queue in the end, with its
\* prepared asset in the Prepared Store (unless the fatal error on another
\* handle has ended the frames).
C13_EventuallyPrepared ==
    /\ [][/\ ((pc = "Extracted" /\ pc' # "Extracted")
                => Range(prepare_next_frame) \subseteq Range(queued_assets'))
           /\ (pc = "PreparingRetries" /\ queued_assets' # queued_assets)
                => /\ Len(log') = Len(log) + 1
                   /\ Item(log'[Len(log')].handle, log'[Len(log')].asset)
                        = Head(queued_assets)
                   /\ (log'[Len(log')].res = "Retry"
                        => (/\ pc' # "Panicked"
                            /\ Head(queued_assets) \in Range(prepare_next_frame')))]_vars
    /\ \A it \in PendingItems :
        (map_weak(it.handle).ok /\ it \in Range(prepare_next_frame))
            ~> (JustPrepared(it) \/ pc = "Panicked")

\* An item came out of the retry queue with Ok while another one is queued
\* once more.
C13_Witness ==
    /\ prepare_next_frame # <<>>
    /\ \E it \in PendingItems : map_weak(it.handle).ok /\ JustPrepared(it)

\* The handle the next loop iteration of the pass works on.
HandleAtHand ==
    IF pc = "PreparingRetries" THEN Head(queued_assets).handle
    ELSE IF pc = "Removing" THEN Head(removed)
    ELSE Head(extracted).handle

\* A step of the pass on a pending handle: fatal, with nothing inserted,
\* erased or queued, if it is a removal or a Preparer call giving Ok; the
\* item queued again, with the store as it was, if the Preparer gives Retry.
PendingStep ==
    IF pc' = "Panicked"
    THEN render_assets' = render_assets /\ prepare_next_frame' = prepare_next_frame
    ELSE /\ pc # "Removing"
         /\ render_assets' = render_assets
         /\ prepare_next_frame' =
                Append(prepare_next_frame,
                       IF pc = "PreparingRetries" THEN Head(queued_assets)
                       ELSE Head(extracted))

\* C14: the pass ends in the fatal error exactly in a step on a handle whose
\* id is pending that is a removal or a Preparer call giving Ok; that step
\* inserts and erases nothing. A Preparer call on a pending handle that gives
\* Retry re-queues the item with no fatal error, and no step on a resolved
\* handle is fatal. The store never has an entry under a pending handle.
C14_FatalOnPendingHandle ==
    /\ [](<<"Into", PendingHandle>> \notin DOMAIN render_assets)
    /\ [][(pc \in {"PreparingRetries", "Removing", "PreparingNew"}) =>
            IF HandleAtHand = PendingHandle THEN PendingStep ELSE pc' # "Panicked"]_vars

\* An item of a pending handle was queued again by a Retry in an earlier
\* pass; now the Preparer gave Ok for it.
C14_Witness ==
    /\ pc = "Panicked"
    /\ log[Len(log)].op = "retry"
    /\ log[Len(log)].res = "Panic"
    /\ log[Len(log)].handle = PendingHandle

\* C15: a changed handle whose data is gone when the Extract stage looks it
\* up gives no extracted item and no error; every other changed handle is
\* extracted with a snapshot of its data, once, and every Removed event of
\* the cycle has its handle in removed.
C15_SilentSkip ==
    /\ pc = "Idle" => ENABLED extract_render_asset
    /\ pc = "Extracted" =>
        /\ \A h \in Handles :
            LastEventIs(cycleEvents, h, TRUE) =>
                IF assets[h] = NoAsset
                THEN h \notin ExtractedHandles
                ELSE Item(h, extract_asset(assets[h])) \in Range(extracted)
        /\ Len(extracted) = Cardinality({h \in changed_assets : assets[h] # NoAsset})
        /\ \A i \in 1..Len(cycleEvents) :
            IsRemoved(cycleEvents[i]) => cycleEvents[i].handle \in Range(removed)

\* Two changed handles, one of them with no data, and a Removed event.
C15_Witness ==
    /\ pc = "Extracted"
    /\ removed # <<>>
    /\ \E h1, h2 \in changed_assets :
        /\ assets[h1] = NoAsset
        /\ extracted = <<Item(h2, extract_asset(assets[h2]))>>

\* The position of a label in the order PreAssetPrepare, AssetPrepare,
\* PostAssetPrepare.
Position(label) ==
    CASE label = "PreAssetPrepare" -> 0
      [] label = "AssetPrepare" -> 1
      [] label = "PostAssetPrepare" -> 2

\* C16: within a Prepare stage the pass of a PreAssetPrepare plugin is over
\* before that of any AssetPrepare plugin begins, and that one before that of
\* any PostAssetPrepare plugin; so a PostAssetPrepare plugin runs after every
\* PreAssetPrepare plugin, also in an app with no AssetPrepare plugin.
C16_PrepareOrdering ==
    \A i, j \in 1..Len(ran) :
        i < j => Position(labels[ran[i]]) <= Position(labels[ran[j]])

\* h is among the handles whose removal was dropped with the buffer.
DroppedRemoval(h) ==
    \E i \in 1..Len(log) : log[i].op = "dropped_removal" /\ log[i].handle = h

\* The Extract stage leaves the store and the retry queue alone and fills the
\* buffer from the events it reads and from nothing else.
ExtractFills ==
    /\ render_assets' = render_assets
    /\ prepare_next_frame' = prepare_next_frame
    /\ Len(removed') = Len(SelectSeq(events, IsRemoved))
    /\ \A i \in 1..Len(removed') : removed'[i] = SelectSeq(events, IsRemoved)[i].handle
    /\ Len(extracted') =
            Cardinality({h \in Handles : LastEventIs(events, h, TRUE) /\ assets[h] # NoAsset})
    /\ \A i \in 1..Len(extracted') :
        /\ LastEventIs(events, extracted'[i].handle, TRUE)
        /\ extracted'[i].asset = extract_asset(assets[extracted'[i].handle])
        /\ \A j \in 1..Len(extracted') : extracted'[j].handle = extracted'[i].handle => i = j

\* C17: an Extract stage puts into extracted and removed exactly what this
\* stage's events give, with nothing of an earlier stage, and leaves the
\* Prepared Store and the retry queue as they were; after two Extract stages
\* with no prepare pass between them, the items of the first are never given
\* to the Preparer, queued or stored, and its removals are never applied.
C17_ExtractReplaces ==
    /\ [][(pc = "Idle" /\ pc' = "Extracted") => ExtractFills]_vars
    /\ [](pc # "Idle" =>
            \A i \in 1..Len(log) :
                log[i].op = "dropped" =>
                    LET it == Item(log[i].handle, log[i].asset) IN
                    /\ it \notin Range(extracted) \cup Range(queued_assets)
                    /\ it \notin Range(prepare_next_frame) \cup Range(taken)
                    /\ ~Gave(it, "Ok") /\ ~Gave(it, "Retry")
                    /\ \A t \in DOMAIN render_assets :
                        render_assets[t] # prepare_asset_into(it.asset))
    /\ [](Boundary =>
            \A h \in ResolvedHandles :
                (DroppedRemoval(h) /\ ~RemovedInPass(h))
                    => (HasEntry(h) <=> hist[h] \in {"ok", "ok_retry"}))

\* The first Extract stage read a change of one handle and the removal of a
\* handle with an entry; the second read other events; after the prepare
\* pass the entry is still there.
C17_Witness ==
    /\ Boundary
    /\ \E i \in 1..Len(log) : log[i].op = "dropped"
    /\ \E h \in ResolvedHandles : DroppedRemoval(h) /\ ~RemovedInPass(h) /\ HasEntry(h)
    /\ \E i \in 1..Len(log) : IsPrepareEntry(log[i])

\* The items the Preparer was called for in this pass, in the order of the calls.
PreparerCalls ==
    [i \in 1..Len(SelectSeq(log, IsPrepareEntry)) |->
        Item(SelectSeq(log, IsPrepareEntry)[i].handle, SelectSeq(log, IsPrepareEntry)[i].asset)]

\* C18: in one prepare pass the Preparer is called exactly once for every
\* item that was in the retry queue when the pass began and once for every
\* extracted item, and for nothing else: an item pushed to the retry queue
\* by a Retry is not worked on again in the same pass, and the pass is over
\* after (queue size + extracted count) calls.
C18_PreparedOncePerPass ==
    pc \in {"PreparingRetries", "Removing", "PreparingNew", "Prepared"} =>
        /\ PreparerCalls \o queued_assets \o extracted = taken
        /\ \A i, j \in 1..Len(taken) : taken[i] = taken[j] => i = j
        /\ Boundary => Len(PreparerCalls) = Len(taken)

\* A pass over one carried-over item, which gave Retry again, and one fresh
\* item: two calls.
C18_Witness ==
    /\ Boundary
    /\ Len(taken) = 2
    /\ Len(log) >= 2
    /\ log[1].op = "retry" /\ log[1].res = "Retry"
    /\ log[Len(log)].op = "new"
    /\ PreparerCalls = taken

\* C19: the entry of a handle is never replaced by an asset prepared from an
\* older snapshot of the handle than the one the entry was prepared from
\* (the main world numbers the values it writes, so older is smaller).
C19_NeverOlderSnapshot ==
    [][\A h \in ResolvedHandles :
        (HasEntry(h) /\ Target(h) \in DOMAIN render_assets')
            => render_assets'[Target(h)].prepared >= render_assets[Target(h)].prepared]_vars

\* evs has a Removed event of h and, after it, a Created or Modified one.
RemovedThenChanged(evs, h) ==
    \E i, j \in 1..Len(evs) :
        /\ i < j
        /\ evs[i] = Event("Removed", h)
        /\ evs[j].handle = h /\ IsChange(evs[j])

\* C20: a handle removed and then created or modified again in one cycle,
\* with its data there at the Extract stage, is in removed and in changed
\* and is extracted; in the pass its removal is applied before its new item
\* is prepared, and when that gives Ok the store holds, at the end of the
\* cycle, the entry prepared from the new item.
C20_RemoveThenRecreate ==
    /\ pc = "Extracted" =>
        \A h \in Handles :
            (/\ RemovedThenChanged(cycleEvents, h)
             /\ LastEventIs(cycleEvents, h, TRUE)
             /\ assets[h] # NoAsset)
                => /\ h \in Range(removed)
                   /\ h \in changed_assets
                   /\ Item(h, extract_asset(assets[h])) \in Range(extracted)
    /\ Boundary =>
        \A i, j \in 1..Len(log) :
            (/\ log[i].op = "remove"
             /\ log[j].op = "new" /\ log[j].res = "Ok"
             /\ log[j].handle = log[i].handle)
                => /\ i < j
                   /\ HasEntry(log[j].handle)
                   /\ render_assets[Target(log[j].handle)] = prepare_asset_into(log[j].asset)

\* The entry of an earlier cycle was erased and the one of the re-created
\* item put in its place within one pass.
C20_Witness ==
    /\ Boundary
    /\ \E i, j \in 1..Len(log) :
        /\ i < j
        /\ log[i].op = "remove" /\ log[i].res = "Erased"
        /\ log[j] = LogEntry("new", log[i].handle, log[j].asset, "Ok")
        /\ render_assets[Target(log[j].handle)] = prepare_asset_into(log[j].asset)

====
